---- MODULE Spec2Model ----
(***************************************************************************)
(* Model of the terminal flashcard viewer (main.go, app.go, ai.go,         *)
(* models.go).  main() parses the flags, builds the App, loads the deck    *)
(* and starts the tview event loop; every key event is one call of         *)
(* App.HandleInput (the application's input capture), followed by the      *)
(* input handler of the focused widget of the root primitive.              *)
(* Application.Stop() closes the screen; the loop ends when it reaches the *)
(* nil event queued behind the key events that were already waiting, so    *)
(* those are still handled.                                                *)
(*                                                                         *)
(* Strings hold ASCII only: the two non-ASCII literals of UpdateCardView   *)
(* (the horizontal rule and the arrow of the controls line) are written    *)
(* "-" and "->".                                                           *)
(***************************************************************************)
EXTENDS Integers, Sequences, FiniteSets, TLC

VARIABLES
    pc,              \* position of main(): start, newapp, load, setup, ui, stopping,
                     \* stopped, exit1, panic
    apiKey,          \* *apiKey of main() after the flag / environment lookup
    Deck,            \* App.Deck
    CurrentCardIdx,  \* App.CurrentCardIdx
    Revealed,        \* App.Revealed
    CardView,        \* text held by App.CardView, one element per WriteString
    disk,            \* records of the file App.FlashcardsFile, in file order
    root,            \* root primitive of App.Application: none, main, form
    focus,           \* primitive holding the focus: none, card, input, save, cancel
    englishInput,    \* text of the form's input field
    last,            \* history: the step that led to this state
    disk0,           \* history: the file as it was at start
    loadErr,         \* history: what app.LoadDeck returned to main()
    deck0,           \* history: the deck as it was when LoadDeck returned
    okSubmits,       \* history: inputs of the successful submits, in order
    advCount,        \* history: advances applied in a row while Browsing
    advStart,        \* history: <<index, reveal>> at the start of that run
    submitFailed,    \* history: some submit has failed
    openedAt,        \* history: the session when the form on screen was opened
    handled,         \* history: number of key events handled so far
    tracking,        \* whether openedAt is recorded in this specification
    keyCap           \* most key events handled in this specification

vars == <<pc, apiKey, Deck, CurrentCardIdx, Revealed, CardView,
          disk, root, focus, englishInput, last, disk0, loadErr, deck0,
          okSubmits, advCount, advStart, submitFailed, openedAt, handled, tracking, keyCap>>

----------------------------------------------------------------------------
(* Bounds of the model. *)

\* longest deck file at start
MaxFile == 2
\* most key events handled in one run of the program
MaxKeys == 4
\* the same limit in the specification that records the opening of the form
MaxKeysEditor == 5
\* the same limit in the specification of two submits in a row
MaxKeysAppend == 6

----------------------------------------------------------------------------
(* Data: cards, file lines, replies of the service. *)

\* Flashcard (models.go): the in-memory card.
Flashcard(id, en, zh, pinyin) ==
    [ID |-> id, English |-> en, Chinese |-> zh, Pinyin |-> pinyin]

\* One record of the JSONL file, written as one line: nl tells that the
\* newline follows it.  wf = FALSE is text that is not a JSON object;
\* closer = TRUE is such text whose first byte is '}' or ']'.
Line(id, en, zh, pinyin) ==
    [wf |-> TRUE, closer |-> FALSE, nl |-> TRUE,
     id |-> id, en |-> en, zh |-> zh, pinyin |-> pinyin]

\* A malformed line on which decoder.More() is true and Decode fails.
BadLine ==
    [wf |-> FALSE, closer |-> FALSE, nl |-> TRUE,
     id |-> 0, en |-> "", zh |-> "", pinyin |-> ""]

\* A malformed line on which decoder.More() is false.
CloserLine ==
    [wf |-> FALSE, closer |-> TRUE, nl |-> TRUE,
     id |-> 0, en |-> "", zh |-> "", pinyin |-> ""]

\* The same record without the newline after it.
Unterminated(line) == [line EXCEPT !.nl = FALSE]

\* json.Marshal(newCard) followed by '\n': the struct tags id, en, zh,
\* pinyin name the fields.
Marshal(card) ==
    Line(card.ID, card.English, card.Chinese, card.Pinyin)

\* What file.Write put in the file: all of the line; nothing; a part of
\* the record; the record without its newline.  The last three come with
\* an error.
WriteOutcomes == {"all", "none", "part", "record"}

\* The file after a write of the line of card at its end (O_APPEND).
Written(file, card, written) ==
    CASE written = "all" -> Append(file, Marshal(card))
      [] written = "record" -> Append(file, Unterminated(Marshal(card)))
      [] written = "part" -> Append(file, Unterminated(BadLine))
      [] OTHER -> file

\* The lines of a file: each is the run of records up to a newline; the
\* last one may lack it.
RECURSIVE LinesOf(_)
LinesOf(file) ==
    IF file = <<>> THEN <<>>
    ELSE LET rest == LinesOf(Tail(file))
         IN  IF Head(file).nl \/ rest = <<>>
             THEN <<<<Head(file)>>>> \o rest
             ELSE <<<<Head(file)>>  \o Head(rest)>> \o Tail(rest)

\* decoder.Decode(&card) on a well-formed line.
Decode(line) ==
    Flashcard(line.id, line.en, line.zh, line.pinyin)

\* Lines a deck file may hold at start.
FileLines ==
    {Line(1, "a", "zh1", "py1"), Line(2, "b", "zh2", "py2"), BadLine, CloserLine}

RECURSIVE SeqsUpTo(_, _)
SeqsUpTo(S, n) ==
    IF n = 0 THEN {<<>>}
    ELSE LET shorter == SeqsUpTo(S, n - 1)
         IN  shorter \cup {Append(s, x) : s \in {t \in shorter : Len(t) = n - 1}, x \in S}

\* The files at start: every line ends with a newline, or all but the last.
InitialFiles ==
    LET whole == SeqsUpTo(FileLines, MaxFile)
    IN  whole \cup {[f EXCEPT ![Len(f)] = Unterminated(@)] : f \in whole \ {<<>>}}

\* Keys delivered to the application.
Runes == {"q", "n"}
Keys == {"Right", "Tab", "Backtab", "Enter", "Esc", "Backspace", "CtrlC"} \cup Runes

\* Values of the --model flag: given empty, or the default.
ModelNames == {"", "gpt-4o-mini"}

\* NewAI (ai.go): the constructor panics on an empty argument.
NewAIPanics(key, modelName) == key = "" \/ modelName = ""

\* Outcomes of the HTTP round trip of AI.Translate.
Reply(kind, zh, pinyin) == [kind |-> kind, zh |-> zh, pinyin |-> pinyin]

NoReply == Reply("none", "", "")

Replies ==
    {Reply(k, "", "") : k \in {"transport_error", "bad_body", "no_choices", "bad_content"}}
    \cup {Reply("content", z, p) : z \in {"", "zh9"}, p \in {"", "py9"}}

----------------------------------------------------------------------------
(* AI.Translate (ai.go), from the reply on. *)

TranslateResult(zh, pinyin, err) == [zh |-> zh, pinyin |-> pinyin, err |-> err]

\* Variant: the two fields are returned without the emptiness test.
Translate_NoFieldCheck(reply) ==
    IF reply.kind = "transport_error" THEN TranslateResult("", "", "transport")
    ELSE IF reply.kind = "bad_body" THEN TranslateResult("", "", "parse")
    ELSE IF reply.kind = "no_choices" THEN TranslateResult("", "", "no_response")
    ELSE IF reply.kind = "bad_content" THEN TranslateResult("", "", "parse")
    ELSE TranslateResult(reply.zh, reply.pinyin, "")

Translate(reply) ==
    IF reply.kind = "transport_error" THEN TranslateResult("", "", "transport")
    ELSE IF reply.kind = "bad_body" THEN TranslateResult("", "", "parse")
    ELSE IF reply.kind = "no_choices" THEN TranslateResult("", "", "no_response")
    ELSE IF reply.kind = "bad_content" THEN TranslateResult("", "", "parse")
    ELSE IF reply.zh = "" \/ reply.pinyin = "" THEN TranslateResult("", "", "no_translation")
    ELSE TranslateResult(reply.zh, reply.pinyin, "")

----------------------------------------------------------------------------
(* App.LoadDeck (app.go): the decode loop. *)

\* decoder.More(): there is a next byte and it is neither ']' nor '}'.
More(lines) == lines # <<>> /\ ~Head(lines).closer

\* Variant: each decoded card is put in front of the deck.
RECURSIVE LoadDeck_Prepend(_, _)
LoadDeck_Prepend(lines, deck) ==
    IF ~More(lines) THEN [deck |-> deck, err |-> FALSE]
    ELSE IF ~Head(lines).wf THEN [deck |-> deck, err |-> TRUE]
    ELSE LoadDeck_Prepend(Tail(lines), <<Decode(Head(lines))>> \o deck)

\* Cards appended to a.Deck, and whether Decode returned an error.  lines
\* is what the decoder still has to read.
RECURSIVE LoadDeck(_, _)
LoadDeck(lines, deck) ==
    IF ~More(lines) THEN [deck |-> deck, err |-> FALSE]
    ELSE IF ~Head(lines).wf THEN [deck |-> deck, err |-> TRUE]
    ELSE LoadDeck(Tail(lines), Append(deck, Decode(Head(lines))))

----------------------------------------------------------------------------
(* App.UpdateCardView (app.go). *)

Placeholder == <<"No cards in deck!">>

CounterLine(idx, total, id) ==
    "Card " \o ToString(idx + 1) \o "/" \o ToString(total)
            \o " (ID: " \o ToString(id) \o ")\n\n"

EnglishLine(card) == "[cyan]" \o card.English \o "[white]\n\n"
ChineseLine(card) == "[yellow]" \o card.Chinese \o "[white]\n\n"
PinyinLine(card) == "[green]" \o card.Pinyin \o "[white]\n"

\* Variant: the answer is written whatever the reveal flag says.
Render_AlwaysAnswer(deck, idx, revealed) ==
    IF Len(deck) = 0 THEN Placeholder
    ELSE LET card == deck[idx + 1]
         IN  <<"\n\n\n", CounterLine(idx, Len(deck), card.ID),
               "[::b]English:[::-]\n", EnglishLine(card),
               "[::b]Chinese:[::-]\n", ChineseLine(card),
               "[::b]Pinyin:[::-]\n", PinyinLine(card),
               "\n-------------------------\n", "\nControls:\n",
               "->: Reveal/Next Card  |  n: New Card  |  q: Quit">>

Render(deck, idx, revealed) ==
    IF Len(deck) = 0 THEN Placeholder
    ELSE LET card == deck[idx + 1]
         IN  <<"\n\n\n", CounterLine(idx, Len(deck), card.ID),
               "[::b]English:[::-]\n", EnglishLine(card)>>
             \o (IF revealed
                 THEN <<"[::b]Chinese:[::-]\n", ChineseLine(card),
                        "[::b]Pinyin:[::-]\n", PinyinLine(card)>>
                 ELSE <<>>)
             \o <<"\n-------------------------\n", "\nControls:\n",
                  "->: Reveal/Next Card  |  n: New Card  |  q: Quit">>

----------------------------------------------------------------------------
(* The application state as one record, and the handlers as functions on   *)
(* it.                                                                     *)

App ==
    [pc |-> pc, Deck |-> Deck, CurrentCardIdx |-> CurrentCardIdx,
     Revealed |-> Revealed, CardView |-> CardView, disk |-> disk,
     root |-> root, focus |-> focus, englishInput |-> englishInput]

\* Variant: no test for the empty deck before a.Deck[a.CurrentCardIdx].
UpdateCardView_NoEmptyGuard(a) ==
    IF a.CurrentCardIdx >= Len(a.Deck)
    THEN [a EXCEPT !.pc = "panic"]
    ELSE [a EXCEPT !.CardView = Render(a.Deck, a.CurrentCardIdx, a.Revealed)]

\* a.Deck[a.CurrentCardIdx] with the index out of range is a runtime panic.
UpdateCardView(a) ==
    IF Len(a.Deck) > 0 /\ a.CurrentCardIdx >= Len(a.Deck)
    THEN [a EXCEPT !.pc = "panic"]
    ELSE [a EXCEPT !.CardView = Render(a.Deck, a.CurrentCardIdx, a.Revealed)]

\* a.Application.Stop(): the screen is closed and the event loop will end
\* after the events already queued; a second call finds no screen and
\* returns.
Stop(a) == IF a.pc = "ui" THEN [a EXCEPT !.pc = "stopping"] ELSE a

\* a.Application.SetRoot(a.MainView, true): the card view takes the focus.
SetRootMain(a) == [a EXCEPT !.root = "main", !.focus = "card"]

\* App.ShowNewCardDialog: a fresh form becomes the root; its input field,
\* the form's first element, takes the focus.
ShowNewCardDialog(a) ==
    [a EXCEPT !.root = "form", !.focus = "input", !.englishInput = ""]

\* Variant: the reveal step moves to the next card as well.
KeyRight_MoveOnReveal(a) ==
    IF Len(a.Deck) = 0
    THEN (IF ~a.Revealed THEN UpdateCardView([a EXCEPT !.Revealed = TRUE])
          ELSE [a EXCEPT !.Revealed = FALSE, !.pc = "panic"])
    ELSE UpdateCardView([a EXCEPT !.Revealed = ~@,
                                  !.CurrentCardIdx = (@ + 1) % Len(a.Deck)])

\* Variant: the second press moves on and leaves the answer revealed.
KeyRight_KeepRevealed(a) ==
    IF ~a.Revealed
    THEN UpdateCardView([a EXCEPT !.Revealed = TRUE])
    ELSE IF Len(a.Deck) = 0
    THEN [a EXCEPT !.pc = "panic"]
    ELSE UpdateCardView([a EXCEPT !.CurrentCardIdx = (@ + 1) % Len(a.Deck)])

\* Variant: the index is incremented without the modulo.
KeyRight_NoModulo(a) ==
    IF ~a.Revealed
    THEN UpdateCardView([a EXCEPT !.Revealed = TRUE])
    ELSE UpdateCardView([a EXCEPT !.Revealed = FALSE,
                                  !.CurrentCardIdx = @ + 1])

\* case tcell.KeyRight of App.HandleInput.  With an empty deck and the
\* answer revealed, the modulo panics (integer divide by zero) after
\* a.Revealed was cleared.
KeyRight(a) ==
    IF ~a.Revealed
    THEN UpdateCardView([a EXCEPT !.Revealed = TRUE])
    ELSE IF Len(a.Deck) = 0
    THEN [a EXCEPT !.Revealed = FALSE, !.pc = "panic"]
    ELSE UpdateCardView([a EXCEPT !.Revealed = FALSE,
                                  !.CurrentCardIdx = (@ + 1) % Len(a.Deck)])

\* The two type tests on GetFocus(): tview hands the focus of a form to its
\* focused element, so GetFocus() is the input field or one of the buttons;
\* only the input field passes a test.
FocusIsFormOrInput(a) == a.focus = "input"

\* App.HandleInput: the application's input capture.
HandleInput(a, key) ==
    IF FocusIsFormOrInput(a) THEN a
    ELSE CASE key = "Right" -> KeyRight(a)
           [] key = "q" -> Stop(a)
           [] key = "n" -> ShowNewCardDialog(a)
           [] OTHER -> a

\* Which branch of the switch of HandleInput ran.
GlobalTaken(a, key) ==
    IF FocusIsFormOrInput(a) THEN "none"
    ELSE CASE key = "Right" -> IF a.Revealed /\ Len(a.Deck) = 0 THEN "panic" ELSE "advance"
           [] key = "q" -> "quit"
           [] key = "n" -> "open"
           [] OTHER -> "none"

\* Variant: the identifier is the deck length, not the length plus one.
SaveNewCard_IdLen(a, englishText, reply, openOk, written) ==
    LET t == Translate(reply)
        newCard == Flashcard(Len(a.Deck), englishText, t.zh, t.pinyin)
        appended == [a EXCEPT !.Deck = Append(@, newCard)]
    IN  IF t.err # "" THEN Stop(a)
        ELSE IF ~openOk THEN Stop(appended)
        ELSE IF written # "all"
        THEN Stop([appended EXCEPT !.disk = Written(@, newCard, written)])
        ELSE UpdateCardView(SetRootMain(
                 [appended EXCEPT !.disk = Written(@, newCard, written)]))

\* Variant: the reveal flag is cleared on the way back to the card view.
SaveNewCard_ClearsReveal(a, englishText, reply, openOk, written) ==
    LET t == Translate(reply)
        newCard == Flashcard(Len(a.Deck) + 1, englishText, t.zh, t.pinyin)
        appended == [a EXCEPT !.Deck = Append(@, newCard)]
    IN  IF t.err # "" THEN Stop(a)
        ELSE IF ~openOk THEN Stop(appended)
        ELSE IF written # "all"
        THEN Stop([appended EXCEPT !.disk = Written(@, newCard, written)])
        ELSE UpdateCardView(SetRootMain(
                 [appended EXCEPT !.disk = Written(@, newCard, written),
                                  !.Revealed = FALSE]))

\* Variant: the card is built and appended before the error is looked at.
SaveNewCard_AppendFirst(a, englishText, reply, openOk, written) ==
    LET t == Translate(reply)
        newCard == Flashcard(Len(a.Deck) + 1, englishText, t.zh, t.pinyin)
        appended == [a EXCEPT !.Deck = Append(@, newCard)]
    IN  IF t.err # "" THEN Stop(appended)
        ELSE IF ~openOk THEN Stop(appended)
        ELSE IF written # "all"
        THEN Stop([appended EXCEPT !.disk = Written(@, newCard, written)])
        ELSE UpdateCardView(SetRootMain(
                 [appended EXCEPT !.disk = Written(@, newCard, written)]))

\* Variant: every new card gets the identifier 1.
SaveNewCard_IdOne(a, englishText, reply, openOk, written) ==
    LET t == Translate(reply)
        newCard == Flashcard(1, englishText, t.zh, t.pinyin)
        appended == [a EXCEPT !.Deck = Append(@, newCard)]
    IN  IF t.err # "" THEN Stop(a)
        ELSE IF ~openOk THEN Stop(appended)
        ELSE IF written # "all"
        THEN Stop([appended EXCEPT !.disk = Written(@, newCard, written)])
        ELSE UpdateCardView(SetRootMain(
                 [appended EXCEPT !.disk = Written(@, newCard, written)]))

\* App.SaveNewCard.  reply, openOk and written are the outcomes of the
\* service call, of os.OpenFile and of file.Write.
SaveNewCard(a, englishText, reply, openOk, written) ==
    LET t == Translate(reply)
        newCard == Flashcard(Len(a.Deck) + 1, englishText, t.zh, t.pinyin)
        appended == [a EXCEPT !.Deck = Append(@, newCard)]
    IN  IF t.err # "" THEN Stop(a)
        ELSE IF ~openOk THEN Stop(appended)
        ELSE IF written # "all"
        THEN Stop([appended EXCEPT !.disk = Written(@, newCard, written)])
        ELSE UpdateCardView(SetRootMain(
                 [appended EXCEPT !.disk = Written(@, newCard, written)]))

SubmitOutcome(reply, openOk, written) ==
    IF Translate(reply).err # "" THEN "translate_err"
    ELSE IF ~openOk THEN "open_err"
    ELSE IF written # "all" THEN "write_err"
    ELSE "submit_ok"

\* Focus order of the form: input field, Save, Cancel (tview.Form: Tab and
\* Enter move on, Backtab moves back, Escape returns to the first element).
NextFocus(f) ==
    CASE f = "input" -> "save" [] f = "save" -> "cancel" [] OTHER -> "input"

PrevFocus(f) ==
    CASE f = "input" -> "cancel" [] f = "save" -> "input" [] OTHER -> "save"

RECURSIVE TextsOfLen(_)
TextsOfLen(n) ==
    IF n = 0 THEN {""} ELSE {t \o r : t \in TextsOfLen(n - 1), r \in Runes}

\* The text without its last character (the input field on Backspace).
DropLast(s) ==
    IF s = "" THEN ""
    ELSE CHOOSE t \in TextsOfLen(Len(s) - 1) : \E r \in Runes : t \o r = s

\* Input handler of the focused element of the form.
FormInput(a, key, reply, openOk, written) ==
    CASE a.focus = "input" /\ key \in Runes ->
            [a EXCEPT !.englishInput = @ \o key]
      [] a.focus = "input" /\ key = "Backspace" ->
            [a EXCEPT !.englishInput = DropLast(@)]
      [] a.focus = "input" /\ key \in {"Tab", "Enter"} ->
            [a EXCEPT !.focus = NextFocus(@)]
      [] a.focus = "save" /\ key = "Enter" ->
            SaveNewCard(a, a.englishInput, reply, openOk, written)
      [] a.focus = "cancel" /\ key = "Enter" -> SetRootMain(a)
      [] a.focus \in {"save", "cancel"} /\ key = "Tab" ->
            [a EXCEPT !.focus = NextFocus(@)]
      [] key = "Backtab" -> [a EXCEPT !.focus = PrevFocus(@)]
      [] key = "Esc" -> [a EXCEPT !.focus = "input"]
      [] OTHER -> a

FormTaken(a, key, reply, openOk, written) ==
    CASE a.focus = "input" /\ key \in Runes -> "type"
      [] a.focus = "input" /\ key = "Backspace" -> "erase"
      [] a.focus = "save" /\ key = "Enter" -> SubmitOutcome(reply, openOk, written)
      [] a.focus = "cancel" /\ key = "Enter" -> "cancel"
      [] key \in {"Tab", "Enter", "Backtab", "Esc"} -> "nav"
      [] OTHER -> "none"

\* The event loop passes the key on to the root it read before the capture
\* ran, if that root still has the focus: the main view has no handler of
\* interest, a form that was replaced or a process that panicked gets none.
\* Ctrl-C is taken by the loop itself after the capture.
Forwarded(a, key) ==
    /\ a.root = "form"
    /\ GlobalTaken(a, key) \notin {"open", "panic"}
    /\ key # "CtrlC"

\* One key event: the capture, then Ctrl-C or the focused widget.
OnKey(a, key, reply, openOk, written) ==
    IF Forwarded(a, key)
    THEN FormInput(HandleInput(a, key), key, reply, openOk, written)
    ELSE IF key = "CtrlC" /\ GlobalTaken(a, key) # "panic"
    THEN Stop(HandleInput(a, key))
    ELSE HandleInput(a, key)

----------------------------------------------------------------------------
(* History records. *)

\* The session as it was before the step.
Pre ==
    [Deck |-> Deck, disk |-> disk, CurrentCardIdx |-> CurrentCardIdx,
     Revealed |-> Revealed, root |-> root, failed |-> submitFailed]

SubmitTags == {"submit_ok", "translate_err", "open_err", "write_err"}

\* No call of the Translation Client in the step.
NoCall == TranslateResult("", "", "no_call")

\* tr is what AI.Translate returned to SaveNewCard in the step.
Step(step, global, form, rendered, text, reply) ==
    [step |-> step, global |-> global, form |-> form,
     rendered |-> rendered, text |-> text, reply |-> reply,
     tr |-> IF form \in SubmitTags THEN Translate(reply) ELSE NoCall,
     pre |-> Pre]

StartupStep(step, rendered) ==
    Step(step, "none", "none", rendered, "", NoReply)

\* The session at the time ShowNewCardDialog ran; NotOpened when no form
\* is or was just on screen.
Snapshot(a) ==
    [Deck |-> a.Deck, disk |-> a.disk, CurrentCardIdx |-> a.CurrentCardIdx,
     Revealed |-> a.Revealed]

NotOpened ==
    [Deck |-> <<>>, disk |-> <<>>, CurrentCardIdx |-> 0, Revealed |-> FALSE]

SubmitInputs(n, text, t) ==
    [n |-> n, text |-> text, zh |-> t.zh, pinyin |-> t.pinyin]

----------------------------------------------------------------------------
(* Initial state: the process has started, main() has not run yet.  The   *)
(* session fields hold the values NewApp gives them.                       *)

InitSession ==
    /\ pc = "start"
    /\ apiKey = ""
    /\ Deck = <<>>
    /\ CurrentCardIdx = 0
    /\ Revealed = FALSE
    /\ CardView = <<>>
    /\ disk \in InitialFiles
    /\ root = "none"
    /\ focus = "none"
    /\ englishInput = ""
    /\ disk0 = disk
    /\ loadErr = "not_run"
    /\ deck0 = <<>>
    /\ okSubmits = <<>>
    /\ advCount = 0
    /\ advStart = <<0, FALSE>>
    /\ submitFailed = FALSE
    /\ openedAt = NotOpened
    /\ handled = 0
    /\ last = StartupStep("init", FALSE)

Init == InitSession /\ tracking = FALSE /\ keyCap = MaxKeys

\* The same start, with the session recorded whenever the form is opened.
InitEditor == InitSession /\ tracking = TRUE /\ keyCap = MaxKeysEditor

\* The same start, with room for two submits one after the other.
InitAppend == InitSession /\ tracking = FALSE /\ keyCap = MaxKeysAppend

----------------------------------------------------------------------------
(* main() (main.go). *)

\* The credential: the flag, else the environment variable, else exit 1.
Credential(flag, env) == IF flag = "" THEN env ELSE flag

\* Variant: main goes on to load the deck without a credential.
MainFlags_NoExit ==
    /\ pc = "start"
    /\ \E flag, env \in {"", "key"} : apiKey' = Credential(flag, env)
    /\ pc' = "newapp"
    /\ last' = StartupStep("flags", FALSE)
    /\ UNCHANGED <<Deck, CurrentCardIdx, Revealed, CardView, disk,
                   root, focus, englishInput, disk0, loadErr, deck0, okSubmits,
                   advCount, advStart, submitFailed, openedAt, handled, tracking, keyCap>>

\* flag is the value of --api-key, env the value of OPENAI_API_KEY.
MainFlags ==
    /\ pc = "start"
    /\ \E flag, env \in {"", "key"} : apiKey' = Credential(flag, env)
    /\ pc' = IF apiKey' = "" THEN "exit1" ELSE "newapp"
    /\ last' = StartupStep("flags", FALSE)
    /\ UNCHANGED <<Deck, CurrentCardIdx, Revealed, CardView, disk,
                   root, focus, englishInput, disk0, loadErr, deck0, okSubmits,
                   advCount, advStart, submitFailed, openedAt, handled, tracking, keyCap>>

\* NewApp(*apiKey, *model); modelName is the value of --model.
MainNewApp ==
    /\ pc = "newapp"
    /\ \E modelName \in ModelNames :
          pc' = IF NewAIPanics(apiKey, modelName) THEN "panic" ELSE "load"
    /\ last' = StartupStep("newapp", FALSE)
    /\ UNCHANGED <<apiKey, Deck, CurrentCardIdx, Revealed, CardView, disk,
                   root, focus, englishInput, disk0, loadErr, deck0, okSubmits,
                   advCount, advStart, submitFailed, openedAt, handled, tracking, keyCap>>

\* What main() gets from LoadDeck: openOk is the outcome of os.Open, read
\* the number of lines the decoder gets before a read fails (all of them
\* when none does) and inRecord whether that failure falls inside a record
\* (Decode returns it) or between two (More() is false).
LoadOutcome(lines, openOk, read, inRecord) ==
    LET r == LoadDeck(SubSeq(lines, 1, read), <<>>)
    IN  IF ~openOk THEN [deck |-> <<>>, err |-> "open"]
        ELSE IF r.err THEN [deck |-> r.deck, err |-> "decode"]
        ELSE IF /\ read < Len(lines) /\ inRecord
                /\ Len(r.deck) = read /\ ~lines[read + 1].closer
        THEN [deck |-> r.deck, err |-> "read"]
        ELSE [deck |-> r.deck, err |-> "nil"]

\* app.LoadDeck(*filePath) and the test of its result.
MainLoadDeck ==
    /\ pc = "load"
    /\ \E openOk, inRecord \in BOOLEAN, read \in 0..Len(disk) :
          LET r == LoadOutcome(disk, openOk, read, inRecord)
          IN  /\ Deck' = r.deck
              /\ deck0' = r.deck
              /\ loadErr' = r.err
              /\ pc' = IF r.err = "nil" THEN "setup" ELSE "exit1"
              /\ last' = Step("load", "none",
                              IF r.err = "open" THEN "load_open_err"
                              ELSE IF read < Len(disk) THEN "load_read_err"
                              ELSE "none",
                              FALSE, "", NoReply)
    /\ UNCHANGED <<apiKey, CurrentCardIdx, Revealed, CardView, disk,
                   root, focus, englishInput, disk0, okSubmits, advCount, advStart,
                   submitFailed, openedAt, handled, tracking, keyCap>>

\* app.SetupUI(), SetInputCapture, SetRoot(app.MainView, true).Run();
\* runOk is whether Run() could set up the terminal screen.  When it could
\* not, Run() returns the error and main exits with code 1.
MainSetupUI ==
    /\ pc = "setup"
    /\ \E runOk \in BOOLEAN :
          LET a == SetRootMain(UpdateCardView(App))
          IN  /\ CardView' = a.CardView
              /\ root' = a.root
              /\ focus' = a.focus
              /\ pc' = IF a.pc = "panic" THEN "panic"
                        ELSE IF runOk THEN "ui" ELSE "exit1"
              /\ last' = Step("setup", "none",
                              IF runOk THEN "none" ELSE "run_err",
                              TRUE, "", NoReply)
    /\ UNCHANGED <<apiKey, Deck, CurrentCardIdx, Revealed, disk,
                   englishInput, disk0, loadErr, deck0, okSubmits, advCount,
                   advStart, submitFailed, openedAt, handled, tracking, keyCap>>

----------------------------------------------------------------------------
(* One key event of the event loop. *)

IsSubmit(a, key) == Forwarded(a, key) /\ a.focus = "save" /\ key = "Enter"

\* The event loop takes events: Run() has not returned.
Running == pc \in {"ui", "stopping"}

KeyEvent(key) ==
    /\ Running
    /\ handled < keyCap
    /\ \E reply \in (IF IsSubmit(App, key) THEN Replies ELSE {NoReply}) :
       \E openOk \in (IF IsSubmit(App, key) /\ Translate(reply).err = ""
                      THEN BOOLEAN ELSE {TRUE}) :
       \E written \in (IF IsSubmit(App, key) /\ Translate(reply).err = "" /\ openOk
                       THEN WriteOutcomes ELSE {"all"}) :
        \E a \in {OnKey(App, key, reply, openOk, written)} :
          LET global == GlobalTaken(App, key)
              form == IF Forwarded(App, key)
                      THEN FormTaken(App, key, reply, openOk, written)
                      ELSE IF key = "CtrlC" /\ global # "panic" THEN "interrupt"
                      ELSE "none"
              failed == form \in SubmitTags \ {"submit_ok"}
              browsingAdvance == root = "main" /\ global = "advance"
          IN  /\ pc' = a.pc
              /\ Deck' = a.Deck
              /\ CurrentCardIdx' = a.CurrentCardIdx
              /\ Revealed' = a.Revealed
              /\ CardView' = a.CardView
              /\ disk' = a.disk
              /\ root' = a.root
              /\ focus' = a.focus
              /\ englishInput' = a.englishInput
              /\ last' = Step("key", global, form,
                              global = "advance" \/ form = "submit_ok",
                              IF IsSubmit(App, key) THEN englishInput ELSE "",
                              reply)
              /\ okSubmits' = IF form = "submit_ok"
                              THEN Append(okSubmits,
                                          SubmitInputs(Len(Deck), englishInput, Translate(reply)))
                              ELSE okSubmits
              /\ submitFailed' = (submitFailed \/ failed)
              /\ advCount' = IF ~browsingAdvance THEN 0
                             ELSE IF advCount = 2 * Len(Deck) THEN 1
                             ELSE advCount + 1
              /\ advStart' = IF ~browsingAdvance THEN <<a.CurrentCardIdx, a.Revealed>>
                             ELSE IF advCount = 2 * Len(Deck) THEN <<CurrentCardIdx, Revealed>>
                             ELSE advStart
              /\ openedAt' = IF ~tracking THEN NotOpened
                              ELSE IF global = "open" THEN Snapshot(App)
                              ELSE IF root = "form" THEN openedAt
                              ELSE NotOpened
    /\ handled' = handled + 1
    /\ UNCHANGED <<apiKey, disk0, loadErr, deck0, tracking, keyCap>>

\* The loop reaches the nil event queued after Stop(): Run() returns nil
\* and main() ends.
RunReturns ==
    /\ pc = "stopping"
    /\ pc' = "stopped"
    /\ last' = StartupStep("return", FALSE)
    /\ UNCHANGED <<apiKey, Deck, CurrentCardIdx, Revealed, CardView, disk,
                   root, focus, englishInput, disk0, loadErr, deck0, okSubmits,
                   advCount, advStart, submitFailed, openedAt, handled, tracking, keyCap>>

Next ==
    \/ MainFlags
    \/ MainNewApp
    \/ MainLoadDeck
    \/ MainSetupUI
    \/ \E key \in Keys : KeyEvent(key)
    \/ RunReturns

Spec == Init /\ [][Next]_vars

SpecEditor == InitEditor /\ [][Next]_vars

SpecAppend == InitAppend /\ [][Next]_vars

TypeOK ==
    /\ pc \in {"start", "newapp", "load", "setup", "ui", "stopping", "stopped",
              "exit1", "panic"}
    /\ loadErr \in {"not_run", "nil", "open", "decode", "read"}
    /\ root \in {"none", "main", "form"}
    /\ focus \in {"none", "card", "input", "save", "cancel"}
    /\ Revealed \in BOOLEAN
    /\ CurrentCardIdx \in Nat
    /\ handled \in 0..keyCap

----------------------------------------------------------------------------
(* Properties. *)

Range(seq) == {seq[i] : i \in 1..Len(seq)}

AdvancedWhileBrowsing ==
    last.step = "key" /\ last.global = "advance" /\ last.pre.root = "main"

\* C1: for a non-empty deck of length N, an advance key handled while
\* Browsing takes (reveal=false, index=i) to (reveal=true, index=i) and
\* (reveal=true, index=i) to (reveal=false, index=(i+1) mod N); the deck and
\* the file are unchanged.
C1_AdvanceStep ==
    (AdvancedWhileBrowsing /\ Len(last.pre.Deck) > 0) =>
        /\ ~last.pre.Revealed =>
              Revealed /\ CurrentCardIdx = last.pre.CurrentCardIdx
        /\ last.pre.Revealed =>
              /\ ~Revealed
              /\ CurrentCardIdx = (last.pre.CurrentCardIdx + 1) % Len(last.pre.Deck)
        /\ Deck = last.pre.Deck
        /\ disk = last.pre.disk

\* The last card of a two-card deck was revealed and advance wrapped to 0.
C1_Witness ==
    /\ AdvancedWhileBrowsing
    /\ Len(Deck) = 2
    /\ last.pre.Revealed /\ last.pre.CurrentCardIdx = 1
    /\ CurrentCardIdx = 0 /\ ~Revealed

\* C2: for a deck of length N > 0, 2N advances in a row, from any starting
\* (index, reveal), return the session to that (index, reveal).
C2_AdvanceCycle ==
    (Len(Deck) > 0 /\ advCount = 2 * Len(Deck)) =>
        <<CurrentCardIdx, Revealed>> = advStart

\* Four advances in a row on a two-card deck, started on the first card
\* with the answer hidden.
C2_Witness ==
    /\ Len(Deck) = 2
    /\ advCount = 4
    /\ advStart = <<0, FALSE>>

\* C3: in every reachable state with a non-empty deck, 0 <= index < len(deck).
C3_IndexValid ==
    Len(Deck) > 0 => (0 <= CurrentCardIdx /\ CurrentCardIdx < Len(Deck))

\* A card was added to a one-card deck, then an advance key was handled
\* on the deck of two.
C3_Witness ==
    /\ Len(Deck) = 2
    /\ Len(deck0) = 1
    /\ okSubmits # <<>>
    /\ last.global = "advance"
    /\ CurrentCardIdx < 2

\* C4: a key event that arrives while Editing, whichever widget of the form
\* holds the focus, does not change index or reveal, does not open another
\* form and does not terminate the process through the quit key.
C4_GlobalKeysOnlyWhileBrowsing ==
    (last.step = "key" /\ last.pre.root = "form") =>
        /\ CurrentCardIdx = last.pre.CurrentCardIdx
        /\ Revealed = last.pre.Revealed
        /\ last.global = "none"

SubmittedCard ==
    Flashcard(Len(last.pre.Deck) + 1, last.text, last.reply.zh, last.reply.pinyin)

SubmittedLine ==
    Line(Len(last.pre.Deck) + 1, last.text, last.reply.zh, last.reply.pinyin)

C6_Original ==
    last.form = "submit_ok" => (root = "main" /\ Revealed = FALSE)

\* C6 as amended: after a successful submit the controller is Browsing and
\* the reveal flag has the value it had just before the submit.
C6_SubmitKeepsReveal ==
    last.form = "submit_ok" =>
        /\ root = "main" /\ focus = "card"
        /\ Revealed = last.pre.Revealed

\* A submit succeeded while the answer was revealed.
C6_Witness ==
    /\ last.form = "submit_ok"
    /\ last.pre.Revealed
    /\ root = "main"

\* The reply makes the Translation Client fail.
FailingReply(r) == r.kind # "content" \/ r.zh = "" \/ r.pinyin = ""

\* C7: when the Translation Client fails during submit, no card is
\* appended: the deck and the file are as before the submit.
C7_TranslateFailureAppendsNothing ==
    (last.form \in SubmitTags /\ FailingReply(last.reply)) =>
        /\ Deck = last.pre.Deck
        /\ disk = last.pre.disk

\* A submit on a non-empty deck met a reply with zero choices.
C7_Witness ==
    /\ last.form \in SubmitTags
    /\ last.reply.kind = "no_choices"
    /\ Len(last.pre.Deck) = 1
    /\ last.text # ""

\* C8: a submit that fails, in the Translation Client or in the file
\* append, is fatal: the process stops, the controller does not return to
\* Browsing, and a key event handled after the failure leaves the deck,
\* the file, the index and the reveal flag as they were.
C8_FailedSubmitIsFatal ==
    /\ submitFailed => (pc # "ui" /\ root = "form")
    /\ (last.step = "key" /\ last.pre.failed) =>
          /\ Deck = last.pre.Deck
          /\ disk = last.pre.disk
          /\ CurrentCardIdx = last.pre.CurrentCardIdx
          /\ Revealed = last.pre.Revealed

SubmitLine(r) == Line(r.n + 1, r.text, r.zh, r.pinyin)

\* One line per successful submit, in submit order.
SubmitLines == [i \in 1..Len(okSubmits) |-> <<SubmitLine(okSubmits[i])>>]

\* C9: a step either leaves the file as it was or, in a successful submit,
\* adds exactly one line at its end and leaves every existing line as it
\* was; at any time the lines of the file are the lines of the original
\* file followed by one line per successful submit, in submit order.
C9_FileAppendOnly ==
    /\ LinesOf(disk) = LinesOf(disk0) \o SubmitLines
    /\ \/ disk = last.pre.disk
       \/ /\ last.form = "submit_ok"
          /\ Len(LinesOf(disk)) = Len(LinesOf(last.pre.disk)) + 1
          /\ SubSeq(LinesOf(disk), 1, Len(LinesOf(last.pre.disk)))
                = LinesOf(last.pre.disk)

CurrentCard == Deck[CurrentCardIdx + 1]

\* C10: rendering a non-empty deck shows the current card's source text and
\* the counter index+1 / total; it shows the target text and the
\* pronunciation if and only if reveal = true.
C10_RenderContract ==
    (last.rendered /\ Len(Deck) > 0 /\ Running) =>
        /\ ("[cyan]" \o CurrentCard.English \o "[white]\n\n") \in Range(CardView)
        /\ ("Card " \o ToString(CurrentCardIdx + 1) \o "/" \o ToString(Len(Deck))
              \o " (ID: " \o ToString(CurrentCard.ID) \o ")\n\n") \in Range(CardView)
        /\ Revealed <=>
              ("[yellow]" \o CurrentCard.Chinese \o "[white]\n\n") \in Range(CardView)
        /\ Revealed <=>
              ("[green]" \o CurrentCard.Pinyin \o "[white]\n") \in Range(CardView)

\* The second card of a two-card deck was rendered with the answer hidden.
C10_Witness ==
    /\ last.rendered
    /\ Running
    /\ Len(Deck) = 2
    /\ CurrentCardIdx = 1
    /\ ~Revealed

\* C11: rendering when the deck is empty produces the placeholder message
\* and does not read deck[index] (which would panic on the empty slice).
C11_EmptyDeckPlaceholder ==
    (last.rendered /\ Len(Deck) = 0) =>
        /\ CardView = <<"No cards in deck!">>
        /\ pc # "panic"

\* The reveal key was handled on an empty deck and the view was rendered.
C11_Witness ==
    /\ last.rendered
    /\ last.global = "advance"
    /\ Len(Deck) = 0
    /\ Revealed

\* C12: Cancel while Editing returns to Browsing without a call of the
\* Translation Client and leaves the deck, the file, the index and the
\* reveal flag as they were when the editor was opened; the typed text
\* does not become a card.
C12_CancelRestoresSession ==
    last.form = "cancel" =>
        /\ root = "main"
        /\ last.tr = NoCall
        /\ Deck = openedAt.Deck
        /\ disk = openedAt.disk
        /\ CurrentCardIdx = openedAt.CurrentCardIdx
        /\ Revealed = openedAt.Revealed

AllWellFormed(lines) == \A i \in 1..Len(lines) : lines[i].wf

\* main() got past a successful load.
Loaded == loadErr = "nil"

\* C13: loading a file with a malformed line fails the whole load and
\* yields no partial deck: no card decoded before the malformed line is in
\* the in-memory deck, and the UI is never started.
C13_NoPartialDeck ==
    (~AllWellFormed(disk0) /\ loadErr # "not_run") =>
        /\ pc = "exit1"
        /\ root = "none"
        /\ Deck = <<>>

\* C14: loading a well-formed file of N records, opened and read without
\* an I/O error, yields a deck of exactly N cards in file order.
C14_LoadKeepsOrder ==
    (last.step = "load" /\ last.form = "none" /\ AllWellFormed(disk)) =>
        /\ pc = "setup"
        /\ Len(Deck) = Len(disk)
        /\ \A i \in 1..Len(disk) :
              Deck[i] = Flashcard(disk[i].id, disk[i].en, disk[i].zh, disk[i].pinyin)

\* A file of two different records was loaded, the record with id 2 first.
C14_Witness ==
    /\ last.step = "load"
    /\ pc = "setup"
    /\ Len(disk) = 2
    /\ disk[1].id = 2 /\ disk[2].id = 1
    /\ Len(Deck) = 2

DistinctIds(deck) ==
    \A i, j \in 1..Len(deck) : i # j => deck[i].ID # deck[j].ID

\* C15 as stated: for any loaded deck with pairwise distinct identifiers,
\* after any sequence of successful submits no two cards share an identifier.
C15_Original ==
    (Loaded /\ ~submitFailed /\ DistinctIds(deck0)) => DistinctIds(Deck)

\* C15 as amended: for a loaded deck of N cards whose identifiers are
\* pairwise distinct and none above N, after any sequence of submits no two
\* cards share an identifier.
C15_UniqueIds ==
    (/\ Loaded
     /\ DistinctIds(deck0)
     /\ \A i \in 1..Len(deck0) : deck0[i].ID <= Len(deck0)) => DistinctIds(Deck)

\* A card was added to a deck loaded from the one-line file with id 1.
C15_Witness ==
    /\ last.form = "submit_ok"
    /\ Len(disk0) = 1
    /\ disk0[1].id = 1
    /\ Len(Deck) = 2

\* C16: Translate succeeds, returning the two fields, only when the reply
\* body is well-formed, has a choice, and the content is well-formed JSON
\* with both fields non-empty; zero choices give the no-response error, a
\* malformed body or content a parse error, an empty field the
\* no-translation error; on every failure both strings are empty.
C16_TranslateOutcome ==
    last.form \in SubmitTags =>
        LET r == last.reply
            t == last.tr
        IN  /\ (t.err = "") <=> (r.kind = "content" /\ r.zh # "" /\ r.pinyin # "")
            /\ t.err = "" => (t.zh = r.zh /\ t.pinyin = r.pinyin)
            /\ r.kind = "no_choices" => t.err = "no_response"
            /\ r.kind \in {"bad_body", "bad_content"} => t.err = "parse"
            /\ (r.kind = "content" /\ (r.zh = "" \/ r.pinyin = "")) =>
                  t.err = "no_translation"
            /\ t.err # "" => (t.zh = "" /\ t.pinyin = "")

\* The reply held a translation and an empty pronunciation.
C16_Witness ==
    /\ last.form = "translate_err"
    /\ last.reply.kind = "content"
    /\ last.reply.zh = "zh9"
    /\ last.reply.pinyin = ""

\* C17: without a credential the process exits with code 1 before the deck
\* is loaded; with a credential and a load that returned an error it exits
\* with code 1 before the UI is set up; the event loop starts only when
\* both succeeded.
C17_StartupOrder ==
    /\ (apiKey = "" /\ pc # "start") =>
          /\ pc = "exit1" /\ last.step = "flags"
          /\ loadErr = "not_run" /\ Deck = <<>> /\ root = "none"
    /\ loadErr \in {"open", "decode", "read"} =>
          (pc = "exit1" /\ last.step = "load" /\ root = "none" /\ CardView = <<>>)
    /\ (root # "none" \/ pc \in {"setup", "ui", "stopping", "stopped"}) =>
          (apiKey # "" /\ loadErr = "nil")

\* The file could not be opened: exit 1 with the credential present.
C17_Witness ==
    /\ pc = "exit1"
    /\ apiKey = "key"
    /\ last.form = "load_open_err"
    /\ root = "none"

\* C18: in every state after the load, a failed append included, the
\* in-memory deck is the sequence of the records of the file.
C18_DeckMatchesFile ==
    Loaded =>
        /\ Len(Deck) = Len(disk)
        /\ \A i \in 1..Len(disk) :
              Deck[i] = Flashcard(disk[i].id, disk[i].en, disk[i].zh, disk[i].pinyin)

\* C19: with an empty deck no sequence of advance keys crashes the process.
C19_NoCrashOnEmptyDeck ==
    (last.step = "key" /\ Len(Deck) = 0) => pc # "panic"

\* C20: after every key event the text of the card view is the rendering
\* of the current deck, index and reveal flag.
C20_ViewNeverStale ==
    last.step = "key" => CardView = Render(Deck, CurrentCardIdx, Revealed)

\* The card on screen: the element of the deck the view was rendered from.
ShownCard == Deck[CurrentCardIdx + 1]

\* C21: a successful submit leaves the index and every existing card
\* unchanged, the deck being the deck before it plus one card at the end,
\* and the card displayed after the return to Browsing is the card that was
\* current when the editor was opened (the new card when the deck was
\* empty).
C21_SubmitKeepsCurrentCard ==
    last.form = "submit_ok" =>
        /\ CurrentCardIdx = last.pre.CurrentCardIdx
        /\ Len(Deck) = Len(last.pre.Deck) + 1
        /\ SubSeq(Deck, 1, Len(last.pre.Deck)) = last.pre.Deck
        /\ ("[cyan]" \o ShownCard.English \o "[white]\n\n") \in Range(CardView)
        /\ ShownCard = IF Len(openedAt.Deck) = 0
                       THEN Deck[Len(Deck)]
                       ELSE openedAt.Deck[openedAt.CurrentCardIdx + 1]

====
